---------------------------- MODULE Spec2Model ----------------------------
(***************************************************************************)
(* Netflix_Dashboard.py: a Streamlit script.  Every interaction of the     *)
(* user with a widget re-runs the script from top to bottom: the CSV is    *)
(* loaded (load_data), the sidebar widgets yield the filter criteria, the  *)
(* mask is applied (fdf), and the KPI block, the charts, the top-N table   *)
(* and the holiday analyser are rendered from fdf.                         *)
(*                                                                         *)
(* Dates are day-of-year ordinals of 2023 (1 = Jan 1, 365 = Dec 31), hours *)
(* viewed are integers (millions).  A CSV cell is modelled by its text: a  *)
(* date cell is <<month, day>> (or <<>> when empty), an hours cell is a    *)
(* sequence of characters (<<>> when empty).                               *)
(***************************************************************************)
EXTENDS Integers, Sequences, FiniteSets

VARIABLES
    phase,            \* "upload": no file yet (st.stop()); "running": the script ran to
                      \* its end; "error": load_data raised and the run was aborted
    uploaded,         \* the uploaded CSV, row by row
    df,               \* the frame load_data returned
    selected_types,   \* the sidebar's widgets
    selected_langs,
    start_date,
    end_date,
    top_n,            \* the "Top N titles" slider
    date_strings,     \* the "Important Dates" text area, split at the commas
    window,           \* the "Day window" slider
    fdf,              \* the filtered frame
    kpi,              \* what each part of the page was rendered from
    content_view,
    seasonal,
    top_titles,
    holiday

vars == <<phase, uploaded, df, selected_types, selected_langs, start_date, end_date, top_n,
          date_strings, window, fdf, kpi, content_view, seasonal, top_titles, holiday>>

\* ---------------------------------------------------------------- bounds
MaxRows == 2          \* rows of the uploaded CSV
MaxWindow == 3        \* largest day window the model slides to (the slider allows 14)
MaxTopN == 10         \* largest "Top N" the model slides to (the slider allows 50)

\* ------------------------------------------------------ missing values
NaT == 0              \* pd.NaT in "Release Date" (ordinals start at 1)
NaN == -1             \* float NaN in a numeric column (hours and months are >= 0)
NaNLabel == "NaN"     \* NaN in a text / categorical column

\* ------------------------------------------------------------- helpers
SEASON_ORDER == <<"Winter", "Spring", "Summer", "Fall">>
WEEKDAY_ORDER == <<"Monday", "Tuesday", "Wednesday", "Thursday", "Friday", "Saturday", "Sunday">>
MONTH_ORDER == <<"Jan", "Feb", "Mar", "Apr", "May", "Jun", "Jul", "Aug", "Sep", "Oct", "Nov", "Dec">>

Range(s) == {s[i] : i \in DOMAIN s}

\* Calendar of 2023 (not a leap year), as pandas' Timestamp computes it.
DaysInMonth == <<31, 28, 31, 30, 31, 30, 31, 31, 30, 31, 30, 31>>

RECURSIVE DaysBefore(_)
DaysBefore(m) == IF m <= 1 THEN 0 ELSE DaysBefore(m - 1) + DaysInMonth[m - 1]

\* pd.to_datetime(text, errors="coerce") of one cell: an impossible or empty
\* date becomes NaT instead of raising.
to_datetime(cell) ==
    IF Len(cell) = 2 /\ cell[1] \in 1..12 /\ cell[2] >= 1 /\ cell[2] <= DaysInMonth[cell[1]]
    THEN DaysBefore(cell[1]) + cell[2]
    ELSE NaT

\* Series.dt.month
dt_month(d) ==
    IF d = NaT THEN NaN
    ELSE CHOOSE m \in 1..12 : DaysBefore(m) < d /\ d <= DaysBefore(m) + DaysInMonth[m]

\* Series.dt.month_name().str[:3]
dt_month_name(d) == IF d = NaT THEN NaNLabel ELSE MONTH_ORDER[dt_month(d)]

\* Series.dt.day_name(); 2023-01-01 was a Sunday.
dt_day_name(d) == IF d = NaT THEN NaNLabel ELSE WEEKDAY_ORDER[((d + 5) % 7) + 1]

get_season(month) ==
    IF month \in {12, 1, 2} THEN "Winter"
    ELSE IF month \in {3, 4, 5} THEN "Spring"
    ELSE IF month \in {6, 7, 8} THEN "Summer"
    ELSE "Fall"

\* pd.Categorical(values, categories=...): a value outside the categories is NaN.
Categorical(v, categories) == IF v \in Range(categories) THEN v ELSE NaNLabel

\* ------------------------------------------------------------ load_data
Digits == {"0", "1", "2", "3", "4", "5", "6", "7", "8", "9"}

DigitValue(c) ==
    CASE c = "0" -> 0 [] c = "1" -> 1 [] c = "2" -> 2 [] c = "3" -> 3 [] c = "4" -> 4
      [] c = "5" -> 5 [] c = "6" -> 6 [] c = "7" -> 7 [] c = "8" -> 8 [] c = "9" -> 9

\* .replace(",", "", regex=True) of one cell
StripCommas(text) == SelectSeq(text, LAMBDA c : c # ",")

\* float(text) succeeds
IsNumber(text) == Len(text) > 0 /\ \A i \in DOMAIN text : text[i] \in Digits

RECURSIVE NumberValue(_)
NumberValue(text) ==
    IF Len(text) = 0 THEN 0
    ELSE 10 * NumberValue(SubSeq(text, 1, Len(text) - 1)) + DigitValue(text[Len(text)])

\* read_csv types the column: numeric when every non-empty cell is a number,
\* object (strings, NaN for the empty cells) otherwise.
IsObjectColumn(raw) ==
    Len(raw) = 0 \/ \E i \in DOMAIN raw : Len(raw[i].Hours) > 0 /\ ~IsNumber(raw[i].Hours)

\* .astype(float) raises ValueError: some cell of the object column is still
\* not a number after the commas are stripped.
AstypeFloatRaises(raw) ==
    /\ IsObjectColumn(raw)
    /\ \E i \in DOMAIN raw :
          Len(raw[i].Hours) > 0 /\ ~IsNumber(StripCommas(raw[i].Hours))

\* "Hours Viewed" of row i after lines 49-50 (when nothing raised).
HoursViewed(raw, i) ==
    LET text == raw[i].Hours
    IN  IF Len(text) = 0 THEN NaN
        ELSE IF IsObjectColumn(raw) THEN NumberValue(StripCommas(text))
        ELSE NumberValue(text)

\* Row i of the frame load_data returns.  idx is the row's index label, which
\* every selection of rows keeps.
LoadedRow(raw, i) ==
    LET date == to_datetime(raw[i].ReleaseDate)
        month == dt_month(date)
    IN  [ idx |-> i,
          ContentType |-> raw[i].ContentType,
          Language |-> raw[i].Language,
          ReleaseDate |-> date,
          HoursViewed |-> HoursViewed(raw, i),
          ReleaseMonth |-> month,
          ReleaseMonthName |-> Categorical(dt_month_name(date), MONTH_ORDER),
          ReleaseDay |-> Categorical(dt_day_name(date), WEEKDAY_ORDER),
          ReleaseSeason |-> Categorical(get_season(month), SEASON_ORDER) ]

load_data(raw) == [i \in DOMAIN raw |-> LoadedRow(raw, i)]

\* --------------------------------------------------- column reductions
RECURSIVE SumHours(_)
\* Series.sum(): NaN cells are skipped, the sum of nothing is 0.
SumHours(rows) ==
    IF Len(rows) = 0 THEN 0
    ELSE (IF Head(rows).HoursViewed = NaN THEN 0 ELSE Head(rows).HoursViewed)
         + SumHours(Tail(rows))

\* The labels of the model's CSV cells in sorted() order.
AlphaOrder == <<"English", "Korean", "Movie", "Show">>

\* sorted(column.dropna().unique())
SortedUnique(labels) == SelectSeq(AlphaOrder, LAMBDA x : x \in labels \ {NaNLabel})

\* ------------------------------------------------------------ kpi_block
\* A quotient a / b that Python computes in floating point is kept as <<a, b>>.
Quotient(a, b) == <<a, b>>

avg_hoursOfValues(rows) ==
    LET valued == SelectSeq(rows, LAMBDA r : r.HoursViewed # NaN)
    IN  IF Len(valued) # 0 THEN Quotient(SumHours(rows), Len(valued)) ELSE Quotient(0, 1)

avg_hours(rows) ==
    IF Len(rows) # 0 THEN Quotient(SumHours(rows), Len(rows)) ELSE Quotient(0, 1)

\* df["Content Type"].value_counts(normalize=True) * 100, then .get(label, 0.0)
content_pct(rows, label) ==
    LET typed == SelectSeq(rows, LAMBDA r : r.ContentType # NaNLabel)
        mine == SelectSeq(rows, LAMBDA r : r.ContentType = label)
    IN  IF Len(mine) = 0 THEN Quotient(0, 1) ELSE Quotient(100 * Len(mine), Len(typed))

kpi_block(rows) ==
    [ total_hours |-> SumHours(rows),
      n_titles |-> Len(rows),
      avg_hours |-> avg_hours(rows),
      show_pct |-> content_pct(rows, "Show"),
      movie_pct |-> content_pct(rows, "Movie") ]

\* ------------------------------------------ plot_viewership_by_content_type
\* groupby("Content Type") drops the rows whose key is NaN and sorts the keys.
plot_viewership_by_content_type(rows) ==
    LET keys == SortedUnique({rows[i].ContentType : i \in DOMAIN rows})
    IN  [ j \in DOMAIN keys |->
            [ ContentType |-> keys[j],
              HoursViewed |-> SumHours(SelectSeq(rows, LAMBDA r : r.ContentType = keys[j])) ] ]

\* ------------------------------------------------- plot_seasonal_viewership
SeasonSum(rows, season) == SumHours(SelectSeq(rows, LAMBDA r : r.ReleaseSeason = season))

\* groupby("Release Season")["Hours Viewed"].sum() over the observed seasons only
\* (observed=True), in category order.
groupby_seasonObserved(rows) ==
    LET keys == SelectSeq(SEASON_ORDER, LAMBDA s : \E i \in DOMAIN rows : rows[i].ReleaseSeason = s)
    IN  [ j \in DOMAIN keys |-> [ ReleaseSeason |-> keys[j], HoursViewed |-> SeasonSum(rows, keys[j]) ] ]

\* groupby("Release Season")["Hours Viewed"].sum(): the column is categorical, so
\* there is one group per category (observed=False), an empty one summing to 0;
\* rows whose season is NaN are in no group.
groupby_season(rows) ==
    [ j \in DOMAIN SEASON_ORDER |->
        [ ReleaseSeason |-> SEASON_ORDER[j], HoursViewed |-> SeasonSum(rows, SEASON_ORDER[j]) ] ]

\* Series.reindex(order): one entry per key of order, NaN where the series has none.
reindex(series, order) ==
    [ j \in DOMAIN order |->
        IF \E i \in DOMAIN series : series[i].ReleaseSeason = order[j]
        THEN series[CHOOSE i \in DOMAIN series : series[i].ReleaseSeason = order[j]]
        ELSE [ ReleaseSeason |-> order[j], HoursViewed |-> NaN ] ]

\* The chart's table with the .reindex(SEASON_ORDER) left out.
plot_seasonal_viewershipNoReindex(rows) == groupby_seasonObserved(rows)

plot_seasonal_viewership(rows) == reindex(groupby_season(rows), SEASON_ORDER)

\* ---------------------------------------------------------- plot_top_titles
\* The orders in which sort_values(ascending=False) may leave the rows: hours
\* descending, NaN last in source order.  The default sort kind is quicksort,
\* which is not stable, so rows with equal hours come out in any order.
SortDescendingOutcomes(rows) ==
    LET n == Len(rows)
        valued == {i \in 1..n : rows[i].HoursViewed # NaN}
        perms == {p \in [1..n -> 1..n] : \A i, j \in 1..n : i # j => p[i] # p[j]}
        ok(p) ==
            \A a, b \in 1..n : a < b =>
                \/ /\ p[a] \in valued
                   /\ p[b] \in valued
                   /\ rows[p[a]].HoursViewed >= rows[p[b]].HoursViewed
                \/ p[a] \in valued /\ p[b] \notin valued
                \/ p[a] \notin valued /\ p[b] \notin valued /\ p[a] < p[b]
    IN  {[i \in 1..n |-> rows[p[i]]] : p \in {q \in perms : ok(q)}}

\* The stable descending order: equal hours stay in source order (mergesort).
RECURSIVE InsertStable(_, _)
InsertStable(sorted, r) ==
    IF Len(sorted) = 0 THEN <<r>>
    ELSE IF Head(sorted).HoursViewed >= r.HoursViewed
         THEN <<Head(sorted)>> \o InsertStable(Tail(sorted), r)
         ELSE <<r>> \o sorted

RECURSIVE SortDescendingStable(_)
SortDescendingStable(rows) ==
    IF Len(rows) = 0 THEN <<>>
    ELSE InsertStable(SortDescendingStable(SubSeq(rows, 1, Len(rows) - 1)), rows[Len(rows)])

Head_n(rows, n) == SubSeq(rows, 1, IF n < Len(rows) THEN n ELSE Len(rows))

\* DataFrame.nlargest(n, "Hours Viewed") with keep="first": the frames it may return.
\*   n >= len(df): the "slow method", sort_values(ascending=False).head(n);
\*   n <  len(df): the n largest non-NaN rows by a stable sort (ties in source
\*                 order), filled up with NaN rows when there are too few.
nlargest(rows, n) ==
    IF n <= 0 THEN {<<>>}
    ELSE IF n >= Len(rows) THEN {Head_n(s, n) : s \in SortDescendingOutcomes(rows)}
    ELSE LET dropped == SelectSeq(rows, LAMBDA r : r.HoursViewed # NaN)
             nan_rows == SelectSeq(rows, LAMBDA r : r.HoursViewed = NaN)
         IN  {Head_n(SortDescendingStable(dropped) \o nan_rows, n)}

\* --------------------------------------------------------- holiday_analysis
default_dates == << <<1, 1>>, <<2, 14>>, <<7, 4>>, <<10, 31>>, <<12, 25>> >>

\* date_strings.split(","), stripped, the blank pieces left out; then
\* pd.to_datetime(..., errors="coerce").dropna(): the pieces that are no date
\* become NaT and are dropped.  Nothing here raises.
parse_dates(pieces) ==
    LET stripped == SelectSeq(pieces, LAMBDA t : Len(t) > 0)
        parsed == [i \in DOMAIN stripped |-> to_datetime(stripped[i])]
    IN  SelectSeq(parsed, LAMBDA d : d # NaT)

Abs(x) == IF x < 0 THEN -x ELSE x

NearStrict(x, d, win) == x # NaT /\ Abs(x - d) < win

\* abs((x - d).days) <= win
Near(x, d, win) == x # NaT /\ Abs(x - d) <= win

\* df["Release Date"].apply(lambda x: any(... for d in dates))
holiday_mask(rows, dates, win) ==
    [i \in DOMAIN rows |-> \E j \in DOMAIN dates : Near(rows[i].ReleaseDate, dates[j], win)]

\* df[mask]: the rows whose mask is True, in source order, index labels kept.
BoolIndex(rows, mask) ==
    LET keep == {i \in DOMAIN rows : mask[i]}
        RECURSIVE pick(_)
        pick(i) == IF i > Len(rows) THEN <<>>
                   ELSE (IF i \in keep THEN <<rows[i]>> ELSE <<>>) \o pick(i + 1)
    IN  pick(1)

holiday_analysis(rows, pieces, win) ==
    LET dates == parse_dates(pieces)
        holiday_releases == BoolIndex(rows, holiday_mask(rows, dates, win))
    IN  [ releases |-> holiday_releases,
          message |-> IF Len(holiday_releases) = 0
                      THEN "No releases found within the selected window."
                      ELSE "chart and table" ]

\* ------------------------------------------------------ sidebar controls
\* sorted(df["Content Type"].dropna().unique()), and the same for the languages
content_types(d) == SortedUnique({d[i].ContentType : i \in DOMAIN d})
languages(d) == SortedUnique({d[i].Language : i \in DOMAIN d})

DefaultLanguageCount == 5

\* default=languages[:5] if len(languages) > 5 else languages
default_langs(d) ==
    IF Len(languages(d)) > DefaultLanguageCount
    THEN Range(SubSeq(languages(d), 1, DefaultLanguageCount))
    ELSE Range(languages(d))

NotNaTDates(d) == {d[i].ReleaseDate : i \in DOMAIN d} \ {NaT}

\* df["Release Date"].min() / .max(), or 2023-01-01 / 2023-12-31 when every date is NaT
min_date(d) ==
    IF NotNaTDates(d) # {} THEN CHOOSE x \in NotNaTDates(d) : \A y \in NotNaTDates(d) : x <= y
    ELSE to_datetime(<<1, 1>>)
max_date(d) ==
    IF NotNaTDates(d) # {} THEN CHOOSE x \in NotNaTDates(d) : \A y \in NotNaTDates(d) : x >= y
    ELSE to_datetime(<<12, 31>>)

\* -------------------------------------------------------- apply filters
\* Series.isin(selected): NaN is in no selection made from the options.
isin(label, selected) == label # NaNLabel /\ label \in selected

\* A date range that leaves out the end date.
date_maskHalfOpen(d, start, end) ==
    [i \in DOMAIN d |->
        d[i].ReleaseDate # NaT /\ d[i].ReleaseDate >= start /\ d[i].ReleaseDate < end]

\* (df["Release Date"].dt.date >= start_date) & (df["Release Date"].dt.date <= end_date);
\* a comparison with NaT is False.
date_mask(d, start, end) ==
    [i \in DOMAIN d |->
        /\ d[i].ReleaseDate # NaT /\ d[i].ReleaseDate >= start
        /\ d[i].ReleaseDate # NaT /\ d[i].ReleaseDate <= end]

And(m1, m2) == [i \in DOMAIN m1 |-> m1[i] /\ m2[i]]

\* The criteria applied to the frame already filtered (fdf = fdf[mask]): a row
\* stays out once an earlier selection has left it out.
filter_maskOfView(d, start, end, types, langs) ==
    LET m0 == date_mask(d, start, end)
        m1 == IF types # {} THEN And(m0, [i \in DOMAIN d |-> isin(d[i].ContentType, types)]) ELSE m0
        m2 == IF langs # {} THEN And(m1, [i \in DOMAIN d |-> isin(d[i].Language, langs)]) ELSE m1
    IN  IF phase = "running"
        THEN And(m2, [i \in DOMAIN d |-> \E j \in DOMAIN fdf : fdf[j].idx = i])
        ELSE m2

filter_mask(d, start, end, types, langs) ==
    LET m0 == date_mask(d, start, end)
        m1 == IF types # {} THEN And(m0, [i \in DOMAIN d |-> isin(d[i].ContentType, types)]) ELSE m0
        m2 == IF langs # {} THEN And(m1, [i \in DOMAIN d |-> isin(d[i].Language, langs)]) ELSE m1
    IN  m2

\* ------------------------------------------------------------ the inputs
\* The CSV rows the model uploads.
CsvRows ==
    { [ContentType |-> "Show",   Language |-> "English", ReleaseDate |-> <<12, 27>>, Hours |-> <<"1", ",", "2">>],
      [ContentType |-> "Movie",  Language |-> "Korean",  ReleaseDate |-> <<12, 29>>, Hours |-> <<"1", "2">>],
      [ContentType |-> "Show",   Language |-> "Korean",  ReleaseDate |-> <<7, 4>>,   Hours |-> <<>>],
      [ContentType |-> NaNLabel, Language |-> NaNLabel,  ReleaseDate |-> <<3, 15>>,  Hours |-> <<"2">>],
      [ContentType |-> "Movie",  Language |-> "English", ReleaseDate |-> <<2, 30>>,  Hours |-> <<"1">>],
      [ContentType |-> "Movie",  Language |-> "English", ReleaseDate |-> <<1, 1>>,   Hours |-> <<"x">>] }

CsvFiles == UNION {[1..n -> CsvRows] : n \in 0..MaxRows}

\* The days the model picks in the date range widget.
PickDays == {to_datetime(c) : c \in {<<1, 1>>, <<3, 15>>, <<7, 4>>, <<8, 1>>, <<12, 27>>, <<12, 29>>, <<12, 31>>}}

\* What the model types into the "Important Dates" text area.
DateTexts == {default_dates, << <<13, 1>>, <<>> >>, <<>>}

\* st.slider("Top N titles", 5, 50, 10, 5)
TopNMin == 5
TopNMax == 50
TopNDefault == 10
TopNStep == 5
TopNChoices == {k \in TopNMin..TopNMax : (k - TopNMin) % TopNStep = 0 /\ k <= MaxTopN}

\* st.slider("Day window", 0, 14, 3)
WindowMax == 14
WindowDefault == 3
WindowChoices == {w \in 0..WindowMax : w <= MaxWindow}

\* ------------------------------------------------------ one run of the script
\* Lines 305-363: the filter, then every part of the page, from the frame and
\* the widgets' values.
Script(d, types, langs, start, end, k, pieces, w) ==
    LET f == BoolIndex(d, filter_mask(d, start, end, types, langs))
    IN  /\ fdf' = f
        /\ kpi' = kpi_block(f)
        /\ content_view' = plot_viewership_by_content_type(f)
        /\ seasonal' = plot_seasonal_viewership(f)
        /\ top_titles' \in nlargest(f, k)
        /\ holiday' = holiday_analysis(f, pieces, w)

Init ==
    /\ phase = "upload"
    /\ uploaded = <<>>
    /\ df = <<>>
    /\ selected_types = {}
    /\ selected_langs = {}
    /\ start_date = NaT
    /\ end_date = NaT
    /\ top_n = TopNDefault
    /\ date_strings = default_dates
    /\ window = WindowDefault
    /\ fdf = <<>>
    /\ kpi = kpi_block(<<>>)
    /\ content_view = <<>>
    /\ seasonal = <<>>
    /\ top_titles = <<>>
    /\ holiday = [releases |-> <<>>, message |-> ""]

\* The user uploads a CSV: the first full run, every widget at its default.
Upload(raw) ==
    /\ phase = "upload"
    /\ uploaded' = raw
    /\ IF AstypeFloatRaises(raw)
       THEN /\ phase' = "error"
            /\ UNCHANGED <<df, selected_types, selected_langs, start_date, end_date, top_n,
                           date_strings, window, fdf, kpi, content_view, seasonal,
                           top_titles, holiday>>
       ELSE LET d == load_data(raw)
            IN  /\ phase' = "running"
                /\ df' = d
                /\ selected_types' = Range(content_types(d))
                /\ selected_langs' = default_langs(d)
                /\ start_date' = min_date(d)
                /\ end_date' = max_date(d)
                /\ UNCHANGED <<top_n, date_strings, window>>
                /\ Script(d, selected_types', selected_langs', start_date', end_date',
                          top_n, date_strings, window)

\* Each change of a widget re-runs the script; load_data is cached.
SelectTypes(types) ==
    /\ phase = "running"
    /\ types \subseteq Range(content_types(df))
    /\ selected_types' = types
    /\ UNCHANGED <<phase, uploaded, df, selected_langs, start_date, end_date, top_n,
                   date_strings, window>>
    /\ Script(df, types, selected_langs, start_date, end_date, top_n, date_strings, window)

SelectLangs(langs) ==
    /\ phase = "running"
    /\ langs \subseteq Range(languages(df))
    /\ selected_langs' = langs
    /\ UNCHANGED <<phase, uploaded, df, selected_types, start_date, end_date, top_n,
                   date_strings, window>>
    /\ Script(df, selected_types, langs, start_date, end_date, top_n, date_strings, window)

PickDateRange(start, end) ==
    /\ phase = "running"
    /\ min_date(df) <= start /\ start <= end /\ end <= max_date(df)
    /\ start_date' = start
    /\ end_date' = end
    /\ UNCHANGED <<phase, uploaded, df, selected_types, selected_langs, top_n,
                   date_strings, window>>
    /\ Script(df, selected_types, selected_langs, start, end, top_n, date_strings, window)

SlideTopN(k) ==
    /\ phase = "running"
    /\ top_n' = k
    /\ UNCHANGED <<phase, uploaded, df, selected_types, selected_langs, start_date, end_date,
                   date_strings, window>>
    /\ Script(df, selected_types, selected_langs, start_date, end_date, k, date_strings, window)

EditDates(pieces) ==
    /\ phase = "running"
    /\ date_strings' = pieces
    /\ UNCHANGED <<phase, uploaded, df, selected_types, selected_langs, start_date, end_date,
                   top_n, window>>
    /\ Script(df, selected_types, selected_langs, start_date, end_date, top_n, pieces, window)

SlideWindow(w) ==
    /\ phase = "running"
    /\ window' = w
    /\ UNCHANGED <<phase, uploaded, df, selected_types, selected_langs, start_date, end_date,
                   top_n, date_strings>>
    /\ Script(df, selected_types, selected_langs, start_date, end_date, top_n, date_strings, w)

\* The sidebar: the filter criteria.
SidebarNext ==
    \/ \E raw \in CsvFiles : Upload(raw)
    \/ \E types \in SUBSET Range(AlphaOrder) : SelectTypes(types)
    \/ \E langs \in SUBSET Range(AlphaOrder) : SelectLangs(langs)
    \/ \E start, end \in PickDays : PickDateRange(start, end)

\* The widgets of the "Top Titles" and "Holidays & Events" tabs.
TabsNext ==
    \/ \E raw \in CsvFiles : Upload(raw)
    \/ \E k \in TopNChoices : SlideTopN(k)
    \/ \E pieces \in DateTexts : EditDates(pieces)
    \/ \E w \in WindowChoices : SlideWindow(w)

Next ==
    \/ \E raw \in CsvFiles : Upload(raw)
    \/ \E types \in SUBSET Range(AlphaOrder) : SelectTypes(types)
    \/ \E langs \in SUBSET Range(AlphaOrder) : SelectLangs(langs)
    \/ \E start, end \in PickDays : PickDateRange(start, end)
    \/ \E k \in TopNChoices : SlideTopN(k)
    \/ \E pieces \in DateTexts : EditDates(pieces)
    \/ \E w \in WindowChoices : SlideWindow(w)

\* A whole session.
Spec == Init /\ [][Next]_vars

\* A session in which only the sidebar's widgets are changed, and one in which
\* only the tabs' widgets are: every step is still a full run of the script.
SidebarSpec == Init /\ [][SidebarNext]_vars
TabsSpec == Init /\ [][TabsNext]_vars

\* ------------------------------------------------------------- the claims
InView(i) == \E j \in DOMAIN fdf : fdf[j].idx = i

Passes(r) ==
    /\ r.ReleaseDate # NaT
    /\ start_date <= r.ReleaseDate
    /\ r.ReleaseDate <= end_date
    /\ (selected_types = {} \/ r.ContentType \in selected_types)
    /\ (selected_langs = {} \/ r.Language \in selected_langs)

\* C1: a row of the table is in the filtered view if and only if its release
\* date is not null and lies in [start, end], and the selected content types are
\* empty or hold its content type, and the selected languages are empty or hold
\* its language.
C1_FilterMembership ==
    phase = "running" => \A i \in DOMAIN df : InView(i) <=> Passes(df[i])

\* Every content type deselected (so no type filter) and one language selected:
\* one row passes, another is left out for its language.
C1_Witness ==
    /\ phase = "running"
    /\ selected_types = {}
    /\ content_types(df) # <<>>
    /\ selected_langs # {}
    /\ \E i \in DOMAIN df : InView(i)
    /\ \E i \in DOMAIN df :
          ~InView(i) /\ df[i].ReleaseDate # NaT /\ df[i].Language \notin selected_langs

\* C2: every loaded row whose release date is null has null derived fields:
\* month number, month name, weekday name and season.
C2_NullDateNullDerived ==
    phase = "running" =>
        \A i \in DOMAIN df :
            df[i].ReleaseDate = NaT =>
                /\ df[i].ReleaseMonth = NaN
                /\ df[i].ReleaseMonthName = NaNLabel
                /\ df[i].ReleaseDay = NaNLabel
                /\ df[i].ReleaseSeason = NaNLabel

UnparseableHours(raw) ==
    {i \in DOMAIN raw : Len(raw[i].Hours) > 0 /\ ~IsNumber(StripCommas(raw[i].Hours))}

\* C3: when a row's hours-viewed text is no number even with the separators
\* stripped, the load succeeds: every row is retained and that row's hours
\* viewed is null.
C3_LoadSurvivesBadHours ==
    (phase # "upload" /\ UnparseableHours(uploaded) # {}) =>
        /\ phase = "running"
        /\ Len(df) = Len(uploaded)
        /\ \A i \in UnparseableHours(uploaded) : df[i].HoursViewed = NaN

\* C4: the per-content-type totals add up to the hours viewed of all rows of
\* the view with non-null hours viewed.
C4_TypeTotalsPartition ==
    phase = "running" => SumHours(content_view) = SumHours(fdf)

InTop(i) == \E j \in DOMAIN top_titles : top_titles[j].idx = fdf[i].idx

\* C5: topK returns min(k, rows of the view) rows, each with hours viewed >=
\* those of every row not returned, in descending order of hours viewed, ties
\* in original row order.
C5_TopK ==
    phase = "running" =>
        /\ Len(top_titles) = (IF top_n < Len(fdf) THEN top_n ELSE Len(fdf))
        /\ \A j \in DOMAIN top_titles, i \in DOMAIN fdf :
              ~InTop(i) => top_titles[j].HoursViewed >= fdf[i].HoursViewed
        /\ \A a, b \in DOMAIN top_titles :
              a < b =>
                \/ top_titles[a].HoursViewed > top_titles[b].HoursViewed
                \/ /\ top_titles[a].HoursViewed = top_titles[b].HoursViewed
                   /\ top_titles[a].idx < top_titles[b].idx

InHoliday(r) == \E j \in DOMAIN holiday.releases : holiday.releases[j].idx = r.idx

\* C6: a row of the view is selected by the holiday window if and only if some
\* reference date is at most `window` days away from its release date, on
\* either side, the bound included.
C6_HolidayWindow ==
    phase = "running" =>
        \A i \in DOMAIN fdf :
            InHoliday(fdf[i]) <=>
                \E d \in Range(parse_dates(date_strings)) :
                    /\ fdf[i].ReleaseDate - d <= window
                    /\ d - fdf[i].ReleaseDate <= window

\* Reference 12-25, window 3: the release of 12-27 matches, that of 12-29 does not.
C6_Witness ==
    /\ phase = "running"
    /\ window = 3
    /\ to_datetime(<<12, 25>>) \in Range(parse_dates(date_strings))
    /\ \E i \in DOMAIN fdf : fdf[i].ReleaseDate = to_datetime(<<12, 27>>) /\ InHoliday(fdf[i])
    /\ \E i \in DOMAIN fdf : fdf[i].ReleaseDate = to_datetime(<<12, 29>>) /\ ~InHoliday(fdf[i])

\* C7: when the reference-date input holds no valid date, the holiday analysis
\* reports the dates as invalid instead of reporting that no release was found.
C7_NoValidDateIsReported ==
    (phase = "running" /\ parse_dates(date_strings) = <<>>) =>
        holiday.message = "Please provide valid dates in YYYY-MM-DD format"

\* C8: the KPI's average is total hours / number of titles when there is a
\* title and 0 when there is none; the empty view gives total 0, count 0,
\* average 0 and content-type shares 0.
C8_Kpi ==
    phase = "running" =>
        /\ kpi.n_titles = Len(fdf)
        /\ kpi.n_titles > 0 =>
              /\ kpi.avg_hours[2] # 0
              /\ kpi.avg_hours[1] * kpi.n_titles = kpi.total_hours * kpi.avg_hours[2]
        /\ kpi.n_titles = 0 =>
              /\ kpi.total_hours = 0
              /\ kpi.avg_hours[1] = 0 /\ kpi.avg_hours[2] # 0
              /\ kpi.show_pct[1] = 0 /\ kpi.movie_pct[1] = 0

\* The date range leaves out every row of a table that has dated rows.
C8_Witness ==
    /\ phase = "running"
    /\ Len(fdf) = 0
    /\ \E i \in DOMAIN df : df[i].ReleaseDate # NaT
    /\ \A i \in DOMAIN df :
          df[i].ReleaseDate # NaT => (df[i].ReleaseDate < start_date \/ df[i].ReleaseDate > end_date)

\* C9: the by-season result has exactly four entries, keyed Winter, Spring,
\* Summer, Fall in that order, whatever the view.
C9_FourSeasons ==
    phase = "running" =>
        /\ Len(seasonal) = 4
        /\ [j \in DOMAIN seasonal |-> seasonal[j].ReleaseSeason]
              = <<"Winter", "Spring", "Summer", "Fall">>

\* A view of one row: three of the seasons have no row.
C9_Witness ==
    /\ phase = "running"
    /\ Len(fdf) = 1
    /\ Len(df) > 1
    /\ Cardinality({j \in DOMAIN seasonal : seasonal[j].HoursViewed > 0}) = 1

CurrentView == SelectSeq(df, Passes)

\* C10: no run after the load changes the loaded table; after each run the view
\* is the table's rows that pass the current criteria, in source order; and a
\* run under unchanged criteria leaves the view as it was.
C10_ViewFollowsCriteria ==
    [][ /\ phase = "running" => (phase' = "running" /\ df' = df)
        /\ phase' = "running" => fdf' = CurrentView'
        /\ (/\ phase = "running"
            /\ <<selected_types, selected_langs, start_date, end_date>>'
                 = <<selected_types, selected_langs, start_date, end_date>>)
           => fdf' = fdf ]_vars

\* Criteria changed away from their defaults, twice, with rows left in and out.
C10_Witness ==
    /\ phase = "running"
    /\ start_date > min_date(df)
    /\ selected_langs # default_langs(df)
    /\ Len(fdf) > 0
    /\ Len(fdf) < Len(df)

=============================================================================
